---------------------------- MODULE Spec2Model ----------------------------
(***************************************************************************)
(* xray: the deterministic repository scanner (ai.agent/rust/xray).        *)
(*                                                                         *)
(* Strings are sequences of one-character strings so that Rust's byte-wise *)
(* String ordering, the lossy path conversion and the JSON bytes can be    *)
(* computed.  "uFFFD" stands for U+FFFD, "xFF"/"xFE" for raw bytes that    *)
(* are not valid UTF-8 in an OS file name.                                 *)
(***************************************************************************)
EXTENDS Integers, Sequences, FiniteSets, TLC

(* ------------------------------ bounds --------------------------------- *)

\* Largest number of files in a scanned tree.
MaxFiles == 2

\* Longest explicit content of a file handed to compute_loc on its own.
MaxLen == 3

\* Largest number of File records of an Index handed to calculate_digest on its own.
MaxIdxFiles == 2

(* ------------------------------ strings -------------------------------- *)

Ascii ==
  <<" ","!","\"","#","$","%","&","'","(",")","*","+",",","-",".","/",
    "0","1","2","3","4","5","6","7","8","9",":",";","<","=",">","?","@",
    "A","B","C","D","E","F","G","H","I","J","K","L","M","N","O","P","Q",
    "R","S","T","U","V","W","X","Y","Z","[","\\","]","^","_","grave",
    "a","b","c","d","e","f","g","h","i","j","k","l","m","n","o","p","q",
    "r","s","t","u","v","w","x","y","z","{","|","}","~">>

AsciiChars == {Ascii[i] : i \in 1..Len(Ascii)}

AsciiIndex == [c \in AsciiChars |-> CHOOSE i \in 1..Len(Ascii) : Ascii[i] = c]

\* The rank of a character in Rust's String ordering (UTF-8 bytes): ASCII by
\* code point, U+FFFD (bytes EF BF BD) above every ASCII character.
Code(c) == IF c \in AsciiChars THEN AsciiIndex[c] + 31 ELSE 1000

Min(a, b) == IF a < b THEN a ELSE b

\* a < b for Rust Strings (Ord for str: lexicographic on bytes).
StrLess(a, b) ==
  \/ /\ Len(a) < Len(b)
     /\ \A i \in 1..Len(a) : a[i] = b[i]
  \/ \E i \in 1..Min(Len(a), Len(b)) :
        /\ \A j \in 1..(i - 1) : a[j] = b[j]
        /\ Code(a[i]) < Code(b[i])

\* char::to_ascii_lowercase / str::to_lowercase on the ASCII letters.
Lower(c) ==
  IF c \in AsciiChars /\ AsciiIndex[c] + 31 >= 65 /\ AsciiIndex[c] + 31 <= 90
  THEN Ascii[AsciiIndex[c] + 32]
  ELSE c

LowerStr(s) == [i \in 1..Len(s) |-> Lower(s[i])]

\* Whether an OS file name is valid UTF-8 (OsStr::to_str is Some).
RawBytes == {"xFF", "xFE"}

IsUtf8Name(name) == \A i \in 1..Len(name) : name[i] \notin RawBytes

\* OsStr::to_string_lossy: every invalid byte becomes U+FFFD.
Lossy(name) == [i \in 1..Len(name) |-> IF name[i] \in RawBytes THEN "uFFFD" ELSE name[i]]

\* The decimal digits of a natural number.
RECURSIVE Digits(_)
Digits(n) ==
  LET d == <<"0","1","2","3","4","5","6","7","8","9">>[(n % 10) + 1]
  IN IF n < 10 THEN <<d>> ELSE Digits(n \div 10) \o <<d>>

RECURSIVE Concat(_)
Concat(ss) == IF ss = <<>> THEN <<>> ELSE Head(ss) \o Concat(Tail(ss))

RECURSIVE SumSeq(_)
SumSeq(ns) == IF ns = <<>> THEN 0 ELSE Head(ns) + SumSeq(Tail(ns))

(* ------------------------- sorting (slice::sort) ----------------------- *)

\* slice::sort_by / slice::sort are stable: an element goes after the
\* elements already placed whose key is not greater.
InsertByKey(sorted, x) ==
  LET n == Cardinality({i \in 1..Len(sorted) : ~StrLess(x.key, sorted[i].key)})
  IN SubSeq(sorted, 1, n) \o <<x>> \o SubSeq(sorted, n + 1, Len(sorted))

RECURSIVE StableSortByKey(_)
StableSortByKey(s) ==
  IF s = <<>> THEN <<>>
  ELSE InsertByKey(StableSortByKey(SubSeq(s, 1, Len(s) - 1)), s[Len(s)])

\* files.sort_by(|a, b| a.path.cmp(&b.path))
SortFilesByPath(files) ==
  LET keyed == [i \in 1..Len(files) |-> [key |-> files[i].path, val |-> files[i]]]
      sorted == StableSortByKey(keyed)
  IN [i \in 1..Len(sorted) |-> sorted[i].val]

\* module_files.sort(); the keys of a BTreeMap in iteration order
SortStrings(ss) ==
  LET keyed == [i \in 1..Len(ss) |-> [key |-> ss[i], val |-> ss[i]]]
      sorted == StableSortByKey(keyed)
  IN [i \in 1..Len(sorted) |-> sorted[i].val]

RECURSIVE SetToSeq(_)
SetToSeq(S) ==
  IF S = {} THEN <<>>
  ELSE LET x == CHOOSE y \in S : TRUE IN <<x>> \o SetToSeq(S \ {x})

(* ------------------------ language.rs: detect_language ----------------- *)

Unknown == <<"U","n","k","n","o","w","n">>

\* The match on the lower-cased extension.
ExtensionLanguage(ext) ==
  CASE ext = <<"g","o">> -> <<"G","o">>
    [] ext = <<"r","s">> -> <<"R","u","s","t">>
    [] ext = <<"m","d">> -> <<"M","a","r","k","d","o","w","n">>
    [] ext = <<"j","s","o","n">> -> <<"J","S","O","N">>
    [] ext = <<"j","s">> -> <<"J","a","v","a","S","c","r","i","p","t">>
    [] ext = <<"t","s">> -> <<"T","y","p","e","S","c","r","i","p","t">>
    [] ext = <<"y","a","m","l">> -> <<"Y","A","M","L">>
    [] ext = <<"y","m","l">> -> <<"Y","A","M","L">>
    [] ext = <<"t","o","m","l">> -> <<"T","O","M","L">>
    [] ext = <<"s","h">> -> <<"S","h","e","l","l">>
    [] ext = <<"b","a","s","h">> -> <<"S","h","e","l","l">>
    [] ext = <<"h","t","m","l">> -> <<"H","T","M","L">>
    [] ext = <<"h","t","m">> -> <<"H","T","M","L">>
    [] ext = <<"c","s","s">> -> <<"C","S","S">>
    [] ext = <<"s","q","l">> -> <<"S","Q","L">>
    [] ext = <<"p","y">> -> <<"P","y","t","h","o","n">>
    [] ext = <<"j","a","v","a">> -> <<"J","a","v","a">>
    [] ext = <<"c">> -> <<"C">>
    [] ext = <<"h">> -> <<"C">>
    [] ext = <<"c","p","p">> -> <<"C","+","+">>
    [] ext = <<"h","p","p">> -> <<"C","+","+">>
    [] ext = <<"c","c">> -> <<"C","+","+">>
    [] ext = <<"c","x","x">> -> <<"C","+","+">>
    [] ext = <<"t","f">> -> <<"T","e","r","r","a","f","o","r","m">>
    [] ext = <<"t","x","t">> -> <<"T","e","x","t">>
    [] ext = <<"t","e","x","t">> -> <<"T","e","x","t">>
    [] OTHER -> Unknown

\* Path::extension of a file name: the part after the last '.', none when
\* there is no '.' or the only '.' is the first character.  <<"none">> is none.
NoExtension == <<"none">>

LastDot(name) ==
  LET dots == {i \in 1..Len(name) : name[i] = "."}
  IN IF dots = {} THEN 0 ELSE CHOOSE i \in dots : \A j \in dots : j <= i

Extension(name) ==
  IF LastDot(name) <= 1 THEN NoExtension
  ELSE SubSeq(name, LastDot(name) + 1, Len(name))

\* detect_language(path), on the path's file name (raw OS bytes).
detect_language(name) ==
  IF IsUtf8Name(name) /\ LowerStr(name) = <<"d","o","c","k","e","r","f","i","l","e">>
  THEN <<"D","o","c","k","e","r","f","i","l","e">>
  ELSE IF IsUtf8Name(name) /\ LowerStr(name) = <<"m","a","k","e","f","i","l","e">>
  THEN <<"M","a","k","e","f","i","l","e">>
  ELSE IF Extension(name) # NoExtension /\ IsUtf8Name(Extension(name))
  THEN ExtensionLanguage(LowerStr(Extension(name)))
  ELSE Unknown

(* ----------------------------- loc.rs: compute_loc --------------------- *)

\* A file's content is `head` followed by `pad` bytes 'a' (the shape of the
\* tests' vec![b'a'; n]): its size is Len(head) + pad.  Content bytes:
\* "a", "nl" (0x0A), "cr" (0x0D), "xC3" "xA9" (the two bytes of U+00E9) and
\* "xFF" (never valid in UTF-8).
ContentBytes == {"a", "nl", "cr", "xC3", "xA9", "xFF"}

LOC_BIG_FILE_CAP_BYTES == 2 * 1024 * 1024

ContentSize(c) == Len(c.head) + c.pad

\* String::from_utf8 succeeds: ASCII bytes stand alone, 0xC3 needs one
\* continuation byte, a lone continuation byte and 0xFF are invalid.
RECURSIVE ValidUtf8From(_, _)
ValidUtf8From(h, i) ==
  IF i > Len(h) THEN TRUE
  ELSE IF h[i] \in {"a", "nl", "cr"} THEN ValidUtf8From(h, i + 1)
  ELSE IF h[i] = "xC3" /\ i < Len(h) /\ h[i + 1] = "xA9" THEN ValidUtf8From(h, i + 2)
  ELSE FALSE

ValidUtf8(c) == ValidUtf8From(c.head, 1)

\* text.lines().count(): every '\n' ends a line (a '\r' before it belongs to
\* the terminator), and bytes after the last '\n' make one more line.
RECURSIVE LinesFrom(_, _, _)
LinesFrom(h, i, open) ==
  IF i > Len(h) THEN <<0, open>>
  ELSE IF h[i] = "nl"
       THEN <<1 + LinesFrom(h, i + 1, FALSE)[1], LinesFrom(h, i + 1, FALSE)[2]>>
       ELSE LinesFrom(h, i + 1, TRUE)

\* A variant with the semantics of `wc -l`: only the '\n' bytes are counted.
LinesCountNewlines(c) == LinesFrom(c.head, 1, FALSE)[1]

LinesCount(c) ==
  LET r == LinesFrom(c.head, 1, FALSE)
  IN r[1] + (IF r[2] \/ c.pad > 0 THEN 1 ELSE 0)

\* compute_loc: Ok(LocStats) or Err (ok = FALSE) when the file cannot be
\* opened or read, or when fs::metadata fails.  metadata and File::open
\* follow a symbolic link: they fail when the link's destination is missing
\* and otherwise see the destination.
LocErr == [ok |-> FALSE, loc |-> 0, size |-> 0, skipped |-> FALSE]

\* A variant whose cap test is >= instead of >.
compute_loc_cap_inclusive(f) ==
  LET size == ContentSize(f.content)
  IN IF f.link = "missing" THEN LocErr
     ELSE IF size >= LOC_BIG_FILE_CAP_BYTES
     THEN [ok |-> TRUE, loc |-> 0, size |-> size, skipped |-> TRUE]
     ELSE IF size = 0
     THEN [ok |-> TRUE, loc |-> 0, size |-> 0, skipped |-> FALSE]
     ELSE IF ~f.readable THEN LocErr
     ELSE IF ValidUtf8(f.content)
     THEN [ok |-> TRUE, loc |-> LinesCount(f.content), size |-> size, skipped |-> FALSE]
     ELSE [ok |-> TRUE, loc |-> 0, size |-> size, skipped |-> TRUE]

compute_loc(f) ==
  LET size == ContentSize(f.content)
  IN IF f.link = "missing" THEN LocErr
     ELSE IF size > LOC_BIG_FILE_CAP_BYTES
     THEN [ok |-> TRUE, loc |-> 0, size |-> size, skipped |-> TRUE]
     ELSE IF size = 0
     THEN [ok |-> TRUE, loc |-> 0, size |-> 0, skipped |-> FALSE]
     ELSE IF ~f.readable THEN LocErr
     ELSE IF ValidUtf8(f.content)
     THEN [ok |-> TRUE, loc |-> LinesCount(f.content), size |-> size, skipped |-> FALSE]
     ELSE [ok |-> TRUE, loc |-> 0, size |-> size, skipped |-> TRUE]

(* --------------------------- hash.rs: compute_file_hash ---------------- *)

\* hex::encode of one content byte.
ByteHex(b) ==
  CASE b = "a" -> <<"6","1">>
    [] b = "nl" -> <<"0","a">>
    [] b = "cr" -> <<"0","d">>
    [] b = "xC3" -> <<"c","3">>
    [] b = "xA9" -> <<"a","9">>
    [] b = "xFF" -> <<"f","f">>

\* SHA-256 is taken to be collision free: the digest of a content is stood
\* for by the content's own hex encoding (the pad as a run length).
ContentDigestHex(c) ==
  Concat([i \in 1..Len(c.head) |-> ByteHex(c.head[i])])
    \o (IF c.pad > 0 THEN <<"+">> \o Digits(c.pad) ELSE <<>>)

\* compute_file_hash(path).unwrap_or_else(|_| ""): "sha256:<hex>", or the
\* empty string when the file cannot be opened.
FileHashOrEmpty(f) ==
  IF f.readable
  THEN <<"s","h","a","2","5","6",":">> \o ContentDigestHex(f.content)
  ELSE <<>>

(* ------------------------------ schema.rs ------------------------------ *)

\* XrayIndex::default()
DefaultIndex ==
  [schema_version |-> <<"1",".","0",".","0">>,
   root |-> <<"u","n","k","n","o","w","n">>,
   target |-> <<".">>,
   files |-> <<>>,
   languages |-> <<>>,
   top_dirs |-> <<>>,
   module_files |-> <<>>,
   stats |-> [file_count |-> 0, total_size |-> 0],
   digest |-> <<>>]

(* ---------------------- canonical.rs: to_canonical_json ---------------- *)

\* serde_json::Value: <<"obj", pairs>> with pairs a sequence of <<key, value>>
\* in the map's iteration order, <<"arr", elements>>, <<"str", s>>, <<"num", n>>.
Obj(pairs) == <<"obj", pairs>>
Arr(elems) == <<"arr", elems>>
Str(s) == <<"str", s>>
Num(n) == <<"num", n>>

\* A BTreeMap<String, usize> (a function on its keys) as a JSON object, its
\* keys in the BTreeMap's ascending iteration order.
MapValue(m) ==
  LET keys == SortStrings(SetToSeq(DOMAIN m))
  IN Obj([i \in 1..Len(keys) |-> <<keys[i], Num(m[keys[i]])>>])

\* #[derive(Serialize)] #[serde(rename_all = "camelCase")] for FileNode:
\* the fields in declaration order.
FileNodeValue(f) ==
  Obj(<< <<<<"p","a","t","h">>, Str(f.path)>>,
         <<<<"s","i","z","e">>, Num(f.size)>>,
         <<<<"h","a","s","h">>, Str(f.hash)>>,
         <<<<"l","a","n","g">>, Str(f.lang)>>,
         <<<<"l","o","c">>, Num(f.loc)>>,
         <<<<"c","o","m","p","l","e","x","i","t","y">>, Num(f.complexity)>> >>)

RepoStatsValue(st) ==
  Obj(<< <<<<"f","i","l","e","C","o","u","n","t">>, Num(st.file_count)>>,
         <<<<"t","o","t","a","l","S","i","z","e">>, Num(st.total_size)>> >>)

\* serde_json::to_value(index): XrayIndex's fields in declaration order.
to_value(index) ==
  Obj(<< <<<<"s","c","h","e","m","a","V","e","r","s","i","o","n">>, Str(index.schema_version)>>,
         <<<<"r","o","o","t">>, Str(index.root)>>,
         <<<<"t","a","r","g","e","t">>, Str(index.target)>>,
         <<<<"f","i","l","e","s">>,
           Arr([i \in 1..Len(index.files) |-> FileNodeValue(index.files[i])])>>,
         <<<<"l","a","n","g","u","a","g","e","s">>, MapValue(index.languages)>>,
         <<<<"t","o","p","D","i","r","s">>, MapValue(index.top_dirs)>>,
         <<<<"m","o","d","u","l","e","F","i","l","e","s">>,
           Arr([i \in 1..Len(index.module_files) |-> Str(index.module_files[i])])>>,
         <<<<"s","t","a","t","s">>, RepoStatsValue(index.stats)>>,
         <<<<"d","i","g","e","s","t">>, Str(index.digest)>> >>)

\* map.get(&k)
MapGet(pairs, k) == (CHOOSE i \in 1..Len(pairs) : pairs[i][1] = k)

\* keys.sort() in canonicalize_object
SortKeys(keys) == SortStrings(keys)

RECURSIVE canonicalize_value(_)
RECURSIVE canonicalize_object(_)

\* A variant that keeps the keys in the order the map yields them.
canonicalize_object_unsorted(pairs) ==
  Obj([i \in 1..Len(pairs) |-> <<pairs[i][1], canonicalize_value(pairs[i][2])>>])

\* Sort keys lexicographically, then insert each key with its canonicalized child.
canonicalize_object(pairs) ==
  LET keys == SortKeys([i \in 1..Len(pairs) |-> pairs[i][1]])
  IN Obj([i \in 1..Len(keys) |->
            <<keys[i], canonicalize_value(pairs[MapGet(pairs, keys[i])][2])>>])

canonicalize_value(v) ==
  IF v[1] = "obj" THEN canonicalize_object(v[2])
  ELSE IF v[1] = "arr"
  THEN Arr([i \in 1..Len(v[2]) |-> canonicalize_value(v[2][i])])
  ELSE v

\* serde_json's string escaping, for the characters of this model that need it.
EscapeChar(c) ==
  IF c = "\\" THEN <<"\\", "\\">>
  ELSE IF c = "\"" THEN <<"\\", "\"">>
  ELSE <<c>>

Quoted(s) ==
  IF \A i \in 1..Len(s) : s[i] \notin {"\\", "\""}
  THEN <<"\"">> \o s \o <<"\"">>
  ELSE <<"\"">> \o Concat([i \in 1..Len(s) |-> EscapeChar(s[i])]) \o <<"\"">>

\* Elements joined by ','.
RECURSIVE JoinComma(_)
JoinComma(parts) ==
  IF parts = <<>> THEN <<>>
  ELSE IF Len(parts) = 1 THEN parts[1]
  ELSE parts[1] \o <<",">> \o JoinComma(Tail(parts))

\* serde_json::to_vec: compact, objects in the map's iteration order.
RECURSIVE to_vec(_)
to_vec(v) ==
  IF v[1] = "obj"
  THEN <<"{">> \o JoinComma([i \in 1..Len(v[2]) |->
                   Quoted(v[2][i][1]) \o <<":">> \o to_vec(v[2][i][2])]) \o <<"}">>
  ELSE IF v[1] = "arr"
  THEN <<"[">> \o JoinComma([i \in 1..Len(v[2]) |-> to_vec(v[2][i])]) \o <<"]">>
  ELSE IF v[1] = "str" THEN Quoted(v[2])
  ELSE Digits(v[2])

to_canonical_json(index) == to_vec(canonicalize_value(to_value(index)))

\* validate_sort_order
validate_sort_order(index) ==
  /\ \A i \in 1..(Len(index.files) - 1) :
        StrLess(index.files[i].path, index.files[i + 1].path)
  /\ \A i \in 1..(Len(index.module_files) - 1) :
        StrLess(index.module_files[i], index.module_files[i + 1])

(* ------------------------ digest.rs: calculate_digest ------------------ *)

\* hex::encode(Sha256(bytes)).  SHA-256 is taken to be collision free: the
\* digest is stood for by a marker followed by the hashed bytes themselves,
\* re-encoded character by character (as hex::encode does byte by byte) into
\* characters a JSON string holds unescaped.
HexChar(c) == IF c = "\"" THEN "'" ELSE IF c = "\\" THEN "|" ELSE c

Sha256Hex(bytes) == <<"#">> \o [i \in 1..Len(bytes) |-> HexChar(bytes[i])]

\* A variant that hashes the clone with its digest field as given.
DigestCloneKeepingDigest(index) ==
  [index EXCEPT !.files = SortFilesByPath(index.files),
                !.module_files = SortStrings(index.module_files)]

\* The clone calculate_digest serializes: digest blanked, files and
\* module_files sorted again.
DigestClone(index) ==
  [index EXCEPT !.digest = <<>>,
                !.files = SortFilesByPath(index.files),
                !.module_files = SortStrings(index.module_files)]

calculate_digest(index) == Sha256Hex(to_canonical_json(DigestClone(index)))

(* ------------------------------ traversal.rs --------------------------- *)

IGNORED_DIRS ==
  { <<".","g","i","t">>,
    <<"n","o","d","e","_","m","o","d","u","l","e","s">>,
    <<"d","i","s","t">>,
    <<"b","u","i","l","d">>,
    <<"o","u","t">>,
    <<"v","e","n","d","o","r">>,
    <<"t","a","r","g","e","t">>,
    <<".","c","a","c","h","e">>,
    <<".","t","m","p">>,
    <<"c","o","v","e","r","a","g","e">>,
    <<".","x","r","a","y","c","a","c","h","e">>,
    <<".","a","i","-","c","o","n","t","e","x","t">> }

MODULE_FILES_LOOKUP ==
  { <<"g","o",".","m","o","d">>,
    <<"C","a","r","g","o",".","t","o","m","l">>,
    <<"p","a","c","k","a","g","e",".","j","s","o","n">>,
    <<".","g","i","t">>,
    <<"M","a","k","e","f","i","l","e">>,
    <<"D","o","c","k","e","r","f","i","l","e">>}

\* The is_ignored closure: the entry's file name, when it is valid UTF-8, is
\* one of IGNORED_DIRS.
is_ignored(name) == IsUtf8Name(name) /\ name \in IGNORED_DIRS

\* Path::to_string_lossy of a relative path: its components joined by the
\* platform separator '/', invalid bytes replaced.
RECURSIVE JoinNames(_)
JoinNames(p) ==
  IF Len(p) = 1 THEN p[1] ELSE p[1] \o <<"/">> \o JoinNames(Tail(p))

\* ToSlash::to_slash_lossy: to_string_lossy().replace('\\', "/")
to_slash_lossy(p) ==
  LET str == Lossy(JoinNames(p))
  IN [i \in 1..Len(str) |-> IF str[i] = "\\" THEN "/" ELSE str[i]]

\* Skip a leading "./".
CleanPath(p) ==
  LET path_str == to_slash_lossy(p)
  IN IF Len(path_str) >= 2 /\ path_str[1] = "." /\ path_str[2] = "/"
     THEN SubSeq(path_str, 3, Len(path_str))
     ELSE path_str

\* clean_path.find('/'): the index of the first '/', 0 when there is none.
FindSlash(str) ==
  LET at == {i \in 1..Len(str) : str[i] = "/"}
  IN IF at = {} THEN 0 ELSE CHOOSE i \in at : \A j \in at : i <= j

\* The top-level directory bucket of a clean path.
TopDir(clean_path) ==
  IF FindSlash(clean_path) > 0
  THEN SubSeq(clean_path, 1, FindSlash(clean_path) - 1)
  ELSE <<".">>

\* *map.entry(key).or_insert(0) += 1
Bump(map, key) ==
  IF key \in DOMAIN map
  THEN [map EXCEPT ![key] = @ + 1]
  ELSE [k \in DOMAIN map \cup {key} |-> IF k = key THEN 1 ELSE map[k]]

\* A variant that leaves skipped files out of the total.
TotalAfterUnskipped(total_size, loc_stats) ==
  IF loc_stats.skipped THEN total_size ELSE total_size + loc_stats.size

\* total_size += loc_stats.size
TotalAfter(total_size, loc_stats) == total_size + loc_stats.size

\* A variant that counts the unclassified label too.
LanguagesAfterAll(languages, lang) == Bump(languages, lang)

\* if lang != "Unknown" { *languages.entry(lang).or_insert(0) += 1 }
LanguagesAfter(languages, lang) ==
  IF lang # Unknown THEN Bump(languages, lang) ELSE languages

\* One pass of scan_target's loop body over a file that compute_loc accepts:
\* the accumulators after it.
ProcessFile(acc, p, f) ==
  LET clean_path == CleanPath(p)
      loc_stats == compute_loc(f)
      lang == detect_language(p[Len(p)])
      node == [path |-> clean_path, size |-> loc_stats.size,
               hash |-> FileHashOrEmpty(f), lang |-> lang,
               loc |-> loc_stats.loc, complexity |-> 0]
  IN [files |-> Append(acc.files, node),
      total_size |-> TotalAfter(acc.total_size, loc_stats),
      languages |-> LanguagesAfter(acc.languages, lang),
      top_dirs |-> Bump(acc.top_dirs, TopDir(clean_path)),
      module_files |->
        IF FindSlash(clean_path) = 0 /\ clean_path \in MODULE_FILES_LOOKUP
        THEN Append(acc.module_files, clean_path)
        ELSE acc.module_files]

\* The ScanResult returned after the loop: files and module_files sorted.
ScanResultOf(acc) ==
  [files |-> SortFilesByPath(acc.files),
   stats |-> [file_count |-> Len(acc.files), total_size |-> acc.total_size],
   languages |-> acc.languages,
   top_dirs |-> acc.top_dirs,
   module_files |-> SortStrings(acc.module_files)]

(* ------------------------- the scanned trees --------------------------- *)

\* A file of a tree: its path below the scan root as a sequence of OS file
\* names, its content, and whether it can be opened for reading.
File(path, head, pad, readable) ==
  [path |-> path, content |-> [head |-> head, pad |-> pad], readable |-> readable,
   link |-> "none"]

\* A symbolic link of a tree: its path, what its destination is ("file",
\* "dir" or "missing") and, for a file, the destination's content.
Link(path, dest, head) ==
  [path |-> path, content |-> [head |-> head, pad |-> 0], readable |-> TRUE,
   link |-> dest]

\* The files trees are drawn from.
Universe ==
  { File(<< <<"a","\\","b">> >>, <<"a">>, 0, TRUE),
    File(<< <<"a">>, <<"b">> >>, <<"a","nl","a">>, 0, TRUE),
    File(<< <<"m",".","g","o">> >>, <<"a","nl","xC3","xA9","cr","nl">>, 0, TRUE),
    File(<< <<"a">>, <<"o","u","t">>, <<"x",".","m","d">> >>, <<"a">>, 0, TRUE),
    File(<< <<"o","u","t","\\","x">> >>, <<"xFF">>, 0, TRUE),
    File(<< <<"g","o",".","m","o","d">> >>, <<>>, LOC_BIG_FILE_CAP_BYTES + 1, FALSE),
    File(<< <<".","g","i","t">>, <<"c">> >>, <<"a">>, 0, TRUE),
    File(<< <<"xFF",".","R","S">> >>, <<>>, 0, TRUE),
    File(<< <<"s",".","r","s">> >>, <<"a">>, 0, FALSE) }

Trees == {t \in SUBSET Universe : Cardinality(t) <= MaxFiles}

\* The entries trees with symbolic links are drawn from: a link to a file,
\* a link in a directory to the directory above it, a link whose
\* destination is missing, and regular files.
LinkUniverse ==
  { Link(<< <<"l">> >>, "file", <<"a","nl","a">>),
    Link(<< <<"a">>, <<"u","p">> >>, "dir", <<>>),
    Link(<< <<"d">> >>, "missing", <<>>),
    File(<< <<"a">>, <<"b">> >>, <<"a","nl","a">>, 0, TRUE),
    File(<< <<".","g","i","t">>, <<"c">> >>, <<"a">>, 0, TRUE) }

LinkTrees ==
  {t \in SUBSET LinkUniverse :
     Cardinality(t) <= MaxFiles /\ \E f \in t : f.link # "none"}

FilePaths(t) == {f.path : f \in t}

FileAt(t, p) == CHOOSE f \in t : f.path = p

\* The directories of a tree, the scan root (the empty path) excluded.
Dirs(t) == UNION {{SubSeq(f.path, 1, k) : k \in 1..(Len(f.path) - 1)} : f \in t}

\* The entries read_dir yields for directory d.
Children(t, d) ==
  {p \in FilePaths(t) \cup Dirs(t) :
     Len(p) = Len(d) + 1 /\ SubSeq(p, 1, Len(d)) = d}

\* path.is_dir(): a directory, or a link to one.
IsDir(t, p) == p \in Dirs(t) \/ (p \in FilePaths(t) /\ FileAt(t, p).link = "dir")

\* A way of running the scan on a tree: the last component of the working
\* directory and the target argument (its components).
Invocations ==
  { [cwd |-> <<"r","e","p","o">>, target |-> << <<".">> >>],
    [cwd |-> <<"w">>, target |-> << <<"r","e","p","o">> >>],
    [cwd |-> <<"w">>, target |-> << <<"o","u","t">> >>] }

\* DirEntry::file_name of the walk's root: the target's last component, or
\* the whole path when that is "." or "..".
RootFileName(target) ==
  IF target[Len(target)] \in {<<".">>, <<".", ".">>}
  THEN JoinNames(target)
  ELSE target[Len(target)]

(* --------------------------- write.rs: write_atomic -------------------- *)

\* The output directory holds at most the artifact and its temporary file.
FinalName == "index.json"

OutNames == {"index.json", "index.tmp"}

\* A variant that writes in place: the "temporary" path is the path itself.
temp_path_in_place(path) == path

\* path.with_extension("tmp")
temp_path(path) == "index.tmp"

\* The files of the output directory: names point to inodes (0: no such
\* name), inodes hold bytes.  An open file is its inode, so a file that is
\* truncated or renamed while open stays the same file.
Inodes == 1..3

NoOutputDir ==
  [dir |-> FALSE, names |-> [n \in OutNames |-> 0], data |-> [i \in Inodes |-> <<>>]]

\* An artifact of an earlier scan, and the temporary file an aborted write
\* left behind.
OldOutput ==
  [dir |-> TRUE,
   names |-> [n \in OutNames |-> IF n = FinalName THEN 1 ELSE 2],
   data |-> [i \in Inodes |-> IF i = 1 THEN <<"{", "}">> ELSE IF i = 2 THEN <<"{">> ELSE <<>>]]

\* What a reader of the final path finds: <<>> when there is no such file,
\* else <<its bytes>>.
Observed(fs) ==
  IF fs.names[FinalName] = 0 THEN <<>> ELSE <<fs.data[fs.names[FinalName]]>>

\* The state of one write_atomic call: its position, the content it was
\* given, the inode of its open file and the offset of that file.
IdleWriter == [pc |-> "idle", content |-> <<>>, fd |-> 0, off |-> 0]

StartedWriter(content) == [pc |-> "mkdir", content |-> content, fd |-> 0, off |-> 0]

OpenInodes(ws) == {ws[p].fd : p \in DOMAIN ws} \ {0}

NamedInodes(fs) == {fs.names[n] : n \in OutNames} \ {0}

\* An inode no name and no open file refers to is gone.
Reclaim(fs, ws) ==
  [fs EXCEPT !.data = [i \in Inodes |->
     IF i \in NamedInodes(fs) \cup OpenInodes(ws) THEN fs.data[i] ELSE <<>>]]

\* A variant in which the rename comes right after the creation, and the
\* content is written to the file once it has its final name.
StepAfterRenameFirst(step) ==
  CASE step = "mkdir" -> "create"
    [] step = "create" -> "rename"
    [] step = "rename" -> "write"
    [] step = "write" -> "sync"
    [] step = "sync" -> "done"

\* The order of write_atomic's steps.
StepAfter(step) ==
  CASE step = "mkdir" -> "create"
    [] step = "create" -> "write"
    [] step = "write" -> "sync"
    [] step = "sync" -> "rename"
    [] step = "rename" -> "done"

\* File::create: the file at that name truncated, or a new empty file.
\* The result is the directory and the inode opened.
file_create(fs, ws, name) ==
  LET ino == IF fs.names[name] # 0 THEN fs.names[name]
             ELSE CHOOSE i \in Inodes \ (NamedInodes(fs) \cup OpenInodes(ws)) :
                    \A j \in Inodes \ (NamedInodes(fs) \cup OpenInodes(ws)) : i <= j
  IN [fs |-> [fs EXCEPT !.names[name] = ino, !.data[ino] = <<>>], fd |-> ino]

\* write_all hands the content to write() in pieces: here at most two, the
\* first ending at half the content.
NextOff(content, off) ==
  IF off < Len(content) \div 2 THEN Len(content) \div 2 ELSE Len(content)

\* write() of a chunk at an offset: bytes before the offset that the file
\* does not have (it was truncated meanwhile) read as zero bytes.
WriteAt(old, off, chunk) ==
  LET n == IF Len(old) > off + Len(chunk) THEN Len(old) ELSE off + Len(chunk)
  IN [i \in 1..n |->
        IF i > off /\ i <= off + Len(chunk) THEN chunk[i - off]
        ELSE IF i <= Len(old) THEN old[i]
        ELSE "nul"]

\* fs::rename: the destination name now refers to the source's file, which
\* replaces whatever the destination was, in one step.
rename(fs, from, to) ==
  IF from = to THEN fs
  ELSE [fs EXCEPT !.names[to] = fs.names[from], !.names[from] = 0]

(* ------------------------------ the state ------------------------------ *)

VARIABLES
  tree,      \* the directory tree being scanned
  inv,       \* the invocation of the current run
  run,       \* 1 or 2: which of the two independent runs is in progress
  pc,        \* the current run's position in run_scan
  stack,     \* the walker's open directories, innermost last
  seen,      \* the entries the walker has produced
  acc,       \* scan_target's accumulators
  index,     \* run_scan's XrayIndex
  bytes,     \* run_scan's serialized artifact
  first,     \* what the first run was and left: its invocation, artifact, digest
  arg,       \* the argument of a function applied on its own
  res,       \* <<>>, or the result of that application
  disk,      \* the output directory
  writers,   \* the write_atomic calls, one per process writing there
  prev,      \* what the final path held before the run
  err        \* "none", or the failure that made run_scan return an error

scanVars == <<tree, inv, run, pc, stack, seen, acc, index, bytes, first>>

outVars == <<disk, writers, prev, err>>

vars ==
  <<tree, inv, run, pc, stack, seen, acc, index, bytes, first, arg, res,
    disk, writers, prev, err>>

Nothing == [inv |-> <<>>, bytes |-> <<>>, digest |-> <<>>]

EmptyAcc ==
  [files |-> <<>>, total_size |-> 0, languages |-> <<>>, top_dirs |-> <<>>,
   module_files |-> <<>>]

Init ==
  /\ tree \in Trees \cup LinkTrees
  /\ inv \in Invocations
  /\ run = 1
  /\ pc = "start"
  /\ stack = <<>>
  /\ seen = {}
  /\ acc = EmptyAcc
  /\ index = DefaultIndex
  /\ bytes = <<>>
  /\ first = Nothing
  /\ arg = <<>>
  /\ res = <<>>
  /\ disk = NoOutputDir
  /\ writers = <<IdleWriter>>
  /\ prev = Observed(disk)
  /\ err = "none"

\* The walker's stack with the directories that have nothing left popped.
RECURSIVE Trim(_, _, _)
Trim(t, st, sn) ==
  IF st = <<>> THEN <<>>
  ELSE IF Children(t, st[Len(st)]) \subseteq sn
  THEN Trim(t, SubSeq(st, 1, Len(st) - 1), sn)
  ELSE st

\* scan_target up to the creation of the walker: the .git check.
BeginScan ==
  /\ pc = "start"
  /\ acc' = [EmptyAcc EXCEPT !.module_files =
               IF <<<<".","g","i","t">>>> \in FilePaths(tree) \cup Dirs(tree)
               THEN << <<".","g","i","t">> >> ELSE <<>>]
  /\ stack' = <<>>
  /\ seen' = {}
  /\ pc' = "walk"
  /\ UNCHANGED <<tree, inv, run, index, bytes, first, arg, res, outVars>>

\* The walker's first entry is the root itself; filter_entry skips it, and
\* everything below it, when its file name is ignored.
WalkRootIgnored ==
  /\ pc = "walk"
  /\ <<>> \notin seen
  /\ is_ignored(RootFileName(inv.target))
  /\ seen' = {<<>>}
  /\ stack' = <<>>
  /\ UNCHANGED <<tree, inv, run, pc, acc, index, bytes, first, arg, res, outVars>>

\* Otherwise the root is a directory: `continue`, and the walk descends.
WalkRootDir ==
  /\ pc = "walk"
  /\ <<>> \notin seen
  /\ ~is_ignored(RootFileName(inv.target))
  /\ seen' = {<<>>}
  /\ stack' = Trim(tree, << <<>> >>, seen')
  /\ UNCHANGED <<tree, inv, run, pc, acc, index, bytes, first, arg, res, outVars>>

\* read_dir's order is not specified: the next entry is any entry of the
\* innermost open directory not yet produced.
NextEntries ==
  IF pc = "walk" /\ <<>> \in seen /\ stack # <<>>
  THEN Children(tree, stack[Len(stack)]) \ seen
  ELSE {}

\* An entry with an ignored name is filtered out and not descended into.
WalkIgnored ==
  \E e \in NextEntries :
    /\ is_ignored(e[Len(e)])
    /\ seen' = seen \cup {e}
    /\ stack' = Trim(tree, stack, seen')
    /\ UNCHANGED <<tree, inv, run, pc, acc, index, bytes, first, arg, res, outVars>>

\* A directory, or a link to one: `continue`.  The walker descends into a
\* directory only (follow_links(false)).
WalkDirectory ==
  \E e \in NextEntries :
    /\ ~is_ignored(e[Len(e)])
    /\ IsDir(tree, e)
    /\ seen' = seen \cup {e}
    /\ stack' = Trim(tree, IF e \in Dirs(tree) THEN Append(stack, e) ELSE stack, seen')
    /\ UNCHANGED <<tree, inv, run, pc, acc, index, bytes, first, arg, res, outVars>>

\* A file: the loop body.
WalkFile ==
  \E e \in NextEntries :
    /\ ~is_ignored(e[Len(e)])
    /\ e \in FilePaths(tree)
    /\ ~IsDir(tree, e)
    /\ compute_loc(FileAt(tree, e)).ok
    /\ acc' = ProcessFile(acc, e, FileAt(tree, e))
    /\ seen' = seen \cup {e}
    /\ stack' = Trim(tree, stack, seen')
    /\ UNCHANGED <<tree, inv, run, pc, index, bytes, first, arg, res, outVars>>

\* compute_loc(path)? fails: scan_target, and run_scan, return the error.
WalkFileError ==
  \E e \in NextEntries :
    /\ ~is_ignored(e[Len(e)])
    /\ e \in FilePaths(tree)
    /\ ~IsDir(tree, e)
    /\ ~compute_loc(FileAt(tree, e)).ok
    /\ pc' = "failed"
    /\ err' = IF FileAt(tree, e).link = "missing" THEN "metadata" ELSE "open"
    /\ seen' = seen \cup {e}
    /\ UNCHANGED <<tree, inv, run, stack, acc, index, bytes, first, arg, res,
                   disk, writers, prev>>

\* The walker cannot read a directory: its entry is an Err, and
\* entry.context(..)? makes scan_target, and run_scan, return the error.
WalkEntryError ==
  \E e \in NextEntries :
    /\ ~is_ignored(e[Len(e)])
    /\ e \in Dirs(tree)
    /\ pc' = "failed"
    /\ err' = "entry"
    /\ seen' = seen \cup {e}
    /\ UNCHANGED <<tree, inv, run, stack, acc, index, bytes, first, arg, res,
                   disk, writers, prev>>

\* run_scan's Index from the ScanResult.
BuildIndex(scan, invocation) ==
  [DefaultIndex EXCEPT !.root = Lossy(invocation.cwd),
                       !.target = JoinNames(invocation.target),
                       !.files = scan.files,
                       !.stats = scan.stats,
                       !.languages = scan.languages,
                       !.top_dirs = scan.top_dirs,
                       !.module_files = scan.module_files]

\* The walker is exhausted: scan_target sorts and returns, run_scan builds
\* the Index.
ScanReturn ==
  /\ pc = "walk"
  /\ <<>> \in seen
  /\ stack = <<>>
  /\ index' = BuildIndex(ScanResultOf(acc), inv)
  /\ pc' = "built"
  /\ UNCHANGED <<tree, inv, run, stack, seen, acc, bytes, first, arg, res, outVars>>

\* index.digest = calculate_digest(&index)?
ComputeDigest ==
  /\ pc = "built"
  /\ index' = [index EXCEPT !.digest = calculate_digest(index)]
  /\ pc' = "digested"
  /\ UNCHANGED <<tree, inv, run, stack, seen, acc, bytes, first, arg, res, outVars>>

\* let bytes = to_canonical_json(&index)?
Serialize ==
  /\ pc = "digested"
  /\ bytes' = to_canonical_json(index)
  /\ pc' = "serialized"
  /\ UNCHANGED <<tree, inv, run, stack, seen, acc, index, first, arg, res, outVars>>

\* calculate_digest(&index)? or to_canonical_json(&index)? fails: run_scan
\* returns the error.
SerializeError ==
  /\ pc \in {"built", "digested"}
  /\ pc' = "failed"
  /\ err' = "serialize"
  /\ UNCHANGED <<tree, inv, run, stack, seen, acc, index, bytes, first, arg, res,
                 disk, writers, prev>>

\* run_scan calls write_atomic(&out_file, &bytes).
WriteArtifact ==
  /\ pc = "serialized"
  /\ pc' = "writing"
  /\ writers' = <<StartedWriter(bytes)>>
  /\ UNCHANGED <<tree, inv, run, stack, seen, acc, index, bytes, first, arg, res,
                 disk, prev, err>>

\* fs::create_dir_all(parent)
CreateParent ==
  \E p \in DOMAIN writers :
    /\ writers[p].pc = "mkdir"
    /\ disk' = [disk EXCEPT !.dir = TRUE]
    /\ writers' = [writers EXCEPT ![p].pc = StepAfter("mkdir")]
    /\ UNCHANGED <<scanVars, arg, res, prev, err>>

\* File::create(&temp_path)
CreateTemp ==
  \E p \in DOMAIN writers :
    /\ writers[p].pc = "create"
    /\ LET made == file_create(disk, writers, temp_path(FinalName))
           ws == [writers EXCEPT ![p].pc = StepAfter("create"),
                                 ![p].fd = made.fd, ![p].off = 0]
       IN /\ writers' = ws
          /\ disk' = Reclaim(made.fs, ws)
    /\ UNCHANGED <<scanVars, arg, res, prev, err>>

\* file.write_all(content): one write() of the next piece.
WriteContent ==
  \E p \in DOMAIN writers :
    /\ writers[p].pc = "write"
    /\ LET w == writers[p]
           to == NextOff(w.content, w.off)
       IN /\ disk' = [disk EXCEPT !.data[w.fd] =
                        WriteAt(@, w.off, SubSeq(w.content, w.off + 1, to))]
          /\ writers' = [writers EXCEPT
                           ![p].off = to,
                           ![p].pc = IF to = Len(w.content) THEN StepAfter("write")
                                     ELSE "write"]
    /\ UNCHANGED <<scanVars, arg, res, prev, err>>

\* file.sync_all(); the file is closed at the end of the block that wrote it.
SyncTemp ==
  \E p \in DOMAIN writers :
    /\ writers[p].pc = "sync"
    /\ writers' = [writers EXCEPT ![p].pc = StepAfter("sync"), ![p].fd = 0]
    /\ disk' = Reclaim(disk, writers')
    /\ UNCHANGED <<scanVars, arg, res, prev, err>>

\* fs::rename(&temp_path, path): fails when the temporary path is gone.
RenameTemp ==
  \E p \in DOMAIN writers :
    /\ writers[p].pc = "rename"
    /\ IF disk.names[temp_path(FinalName)] = 0
       THEN /\ writers' = [writers EXCEPT ![p].pc = "failed", ![p].fd = 0]
            /\ disk' = Reclaim(disk, writers')
       ELSE /\ writers' = [writers EXCEPT ![p].pc = StepAfter("rename")]
            /\ disk' = Reclaim(rename(disk, temp_path(FinalName), FinalName), writers')
    /\ UNCHANGED <<scanVars, arg, res, prev, err>>

\* Any step of write_atomic fails (no space, no permission, an I/O error):
\* the call returns the error, its file closed, and write_atomic(..)? makes
\* run_scan return it.
WriteStepFails ==
  /\ pc = "writing"
  /\ writers[1].pc \in {"mkdir", "create", "write", "sync", "rename"}
  /\ writers' = [writers EXCEPT ![1].pc = "failed", ![1].fd = 0]
  /\ disk' = Reclaim(disk, writers')
  /\ pc' = "failed"
  /\ err' = "write"
  /\ UNCHANGED <<tree, inv, run, stack, seen, acc, index, bytes, first, arg, res,
                 prev>>

\* The process stops between two steps of write_atomic.
ProcessStops ==
  /\ pc = "writing"
  /\ writers[1].pc \in {"mkdir", "create", "write", "sync", "rename"}
  /\ writers' = [writers EXCEPT ![1].pc = "stopped", ![1].fd = 0]
  /\ disk' = Reclaim(disk, writers')
  /\ pc' = "stopped"
  /\ UNCHANGED <<tree, inv, run, stack, seen, acc, index, bytes, first, arg, res,
                 prev, err>>

\* write_atomic returned Ok: the digest and the path are printed.
WriteReturn ==
  /\ pc = "writing"
  /\ writers[1].pc = "done"
  /\ pc' = "written"
  /\ UNCHANGED <<tree, inv, run, stack, seen, acc, index, bytes, first, arg, res,
                 outVars>>

\* A second, independent run on the same tree, writing to the same output
\* directory.
SecondRun ==
  /\ pc = "written"
  /\ run = 1
  /\ run' = 2
  /\ inv' \in Invocations
  /\ first' = [inv |-> inv, bytes |-> bytes, digest |-> index.digest]
  /\ pc' = "start"
  /\ stack' = <<>>
  /\ seen' = {}
  /\ acc' = EmptyAcc
  /\ index' = DefaultIndex
  /\ bytes' = <<>>
  /\ writers' = <<IdleWriter>>
  /\ prev' = Observed(disk)
  /\ err' = "none"
  /\ UNCHANGED <<tree, arg, res, disk>>

Next ==
  \/ BeginScan
  \/ WalkRootIgnored
  \/ WalkRootDir
  \/ WalkIgnored
  \/ WalkDirectory
  \/ WalkFile
  \/ WalkFileError
  \/ WalkEntryError
  \/ ScanReturn
  \/ ComputeDigest
  \/ Serialize
  \/ SerializeError
  \/ WriteArtifact
  \/ CreateParent
  \/ CreateTemp
  \/ WriteContent
  \/ SyncTemp
  \/ RenameTemp
  \/ WriteStepFails
  \/ ProcessStops
  \/ WriteReturn
  \/ SecondRun

Spec == Init /\ [][Next]_vars

(* --------------------- functions applied on their own ------------------ *)

\* The scan is not running.
ScanIdle ==
  /\ tree = {}
  /\ inv = [cwd |-> <<"r","e","p","o">>, target |-> << <<".">> >>]
  /\ run = 1
  /\ pc = "idle"
  /\ stack = <<>>
  /\ seen = {}
  /\ acc = EmptyAcc
  /\ index = DefaultIndex
  /\ bytes = <<>>
  /\ first = Nothing

\* Nothing is being written.
OutputIdle ==
  /\ disk = NoOutputDir
  /\ writers = <<IdleWriter>>
  /\ prev = <<>>
  /\ err = "none"

SeqsUpTo(S, n) == UNION {[1..k -> S] : k \in 0..n}

Perms(n) == {q \in [1..n -> 1..n] : \A i, j \in 1..n : q[i] = q[j] => i = j}

\* Files of every content up to MaxLen bytes, alone, followed by one more
\* byte 'a', or padded to exactly the cap and to one byte over it, readable
\* or not.
LocInputs ==
  UNION {{File(<< <<"f">> >>, h, pad, rd) :
            pad \in {0, 1, LOC_BIG_FILE_CAP_BYTES - Len(h), LOC_BIG_FILE_CAP_BYTES + 1 - Len(h)},
            rd \in BOOLEAN} :
         h \in SeqsUpTo(ContentBytes, MaxLen)}

InitLoc == ScanIdle /\ OutputIdle /\ arg \in LocInputs /\ res = <<>>

ApplyComputeLoc ==
  /\ res = <<>>
  /\ res' = <<compute_loc(arg)>>
  /\ UNCHANGED <<scanVars, outVars, arg>>

NextLoc == ApplyComputeLoc

SpecLoc == InitLoc /\ [][NextLoc]_vars

\* The files of the universe scan_target makes File records of.
Recorded ==
  {f \in Universe :
     /\ compute_loc(f).ok
     /\ \A k \in 1..Len(f.path) : ~is_ignored(f.path[k])}

RECURSIVE ProcessAll(_, _)
ProcessAll(acc0, fs) ==
  IF fs = <<>> THEN acc0
  ELSE ProcessFile(ProcessAll(acc0, SubSeq(fs, 1, Len(fs) - 1)),
                   fs[Len(fs)].path, fs[Len(fs)])

\* The Index of the files fs processed in that order, files and module_files
\* left in processing order (an upstream that did not sort).
UnsortedIndex(fs, git) ==
  LET a == ProcessAll([EmptyAcc EXCEPT !.module_files =
                         IF git THEN << <<".","g","i","t">> >> ELSE <<>>], fs)
  IN [BuildIndex(ScanResultOf(a), [cwd |-> <<"r","e","p","o">>, target |-> << <<".">> >>])
        EXCEPT !.files = a.files, !.module_files = a.module_files]

SampleIndexes ==
  {UnsortedIndex(fs, git) :
     fs \in {q \in SeqsUpTo(Recorded, MaxIdxFiles) :
               \A i, j \in 1..Len(q) : q[i] = q[j] => i = j},
     git \in BOOLEAN}

\* An Index and a permutation of its files and of its module_files.
Permuted(idx, pf, pm) ==
  [idx EXCEPT !.files = [i \in 1..Len(idx.files) |-> idx.files[pf[i]]],
              !.module_files = [i \in 1..Len(idx.module_files) |-> idx.module_files[pm[i]]]]

InitDigest ==
  /\ ScanIdle
  /\ OutputIdle
  /\ \E idx \in SampleIndexes :
       \E pf \in Perms(Len(idx.files)) :
         \E pm \in Perms(Len(idx.module_files)) :
           arg = [index |-> idx, other |-> Permuted(idx, pf, pm)]
  /\ res = <<>>

ApplyCalculateDigest ==
  /\ res = <<>>
  /\ res' = <<calculate_digest(arg.index), calculate_digest(arg.other)>>
  /\ UNCHANGED <<scanVars, outVars, arg>>

NextDigest == ApplyCalculateDigest

SpecDigest == InitDigest /\ [][NextDigest]_vars

\* A JSON value with the pairs of every object in another order: as given
\* (0), reversed (1), or rotated by one (2).
PermutePairs(ps, k) ==
  IF k = 1 THEN [i \in 1..Len(ps) |-> ps[Len(ps) + 1 - i]]
  ELSE IF k = 2 /\ Len(ps) > 1 THEN Tail(ps) \o <<Head(ps)>>
  ELSE ps

RECURSIVE Shuffled(_, _)
Shuffled(v, k) ==
  IF v[1] = "obj"
  THEN Obj(PermutePairs([i \in 1..Len(v[2]) |-> <<v[2][i][1], Shuffled(v[2][i][2], k)>>], k))
  ELSE IF v[1] = "arr"
  THEN Arr([i \in 1..Len(v[2]) |-> Shuffled(v[2][i], k)])
  ELSE v

InitCanon ==
  /\ ScanIdle
  /\ OutputIdle
  /\ \E idx \in SampleIndexes :
       \E k \in 0..2 :
         arg = [index |-> idx, value |-> Shuffled(to_value(idx), k), shuffle |-> k]
  /\ res = <<>>

\* canonicalize_value and serde_json::to_vec on a value whose keys were
\* inserted in some order.
ApplyCanonicalize ==
  /\ res = <<>>
  /\ res' = <<to_vec(canonicalize_value(arg.value))>>
  /\ UNCHANGED <<scanVars, outVars, arg>>

NextCanon == ApplyCanonicalize

SpecCanon == InitCanon /\ [][NextCanon]_vars


(* ------------------- two processes writing the same artifact ----------- *)

\* The complete bytes two runs may hand to write_atomic.
Artifacts == {<<"x", "x">>, <<"y">>, <<"y", "y", "y", "y">>}

\* Two run_scan processes have both reached write_atomic for the same
\* output directory, which is new or holds an earlier artifact.
InitConc ==
  /\ ScanIdle
  /\ arg = <<>>
  /\ res = <<>>
  /\ disk \in {NoOutputDir, OldOutput}
  /\ \E c1, c2 \in Artifacts : writers = <<StartedWriter(c1), StartedWriter(c2)>>
  /\ prev = Observed(disk)
  /\ err = "none"

NextConc ==
  \/ CreateParent
  \/ CreateTemp
  \/ WriteContent
  \/ SyncTemp
  \/ RenameTemp

SpecConc == InitConc /\ [][NextConc]_vars

(* ------------------------------- claims -------------------------------- *)

\* scan_target has returned and run_scan holds its result in index.
Returned ==
  \/ pc \in {"built", "digested", "serialized", "writing", "written", "stopped"}
  \/ pc = "failed" /\ err \in {"serialize", "write"}

\* Both runs have written their artifact.
BothWritten == run = 2 /\ pc = "written"

\* The '/'-separated segments of a path string.
RECURSIVE Segments(_)
Segments(str) ==
  IF FindSlash(str) = 0 THEN {str}
  ELSE {SubSeq(str, 1, FindSlash(str) - 1)}
         \cup Segments(SubSeq(str, FindSlash(str) + 1, Len(str)))

Sizes(files) == [i \in 1..Len(files) |-> files[i].size]

CountLang(files, l) == Cardinality({i \in 1..Len(files) : files[i].lang = l})

MapSum(m) == SumSeq([i \in 1..Cardinality(DOMAIN m) |-> m[SetToSeq(DOMAIN m)[i]]])

\* C1: two runs of run_scan on the same tree, invoked the same way, write the
\* same artifact bytes and the same digest whatever order the walker yielded
\* the entries in.
C1_WalkOrderNeverShows ==
  (BothWritten /\ first.inv = inv)
    => (bytes = first.bytes /\ index.digest = first.digest)

\* C2: two runs of run_scan on the same tree write the same artifact bytes
\* and the same digest whatever working directory and target spelling each
\* was invoked with.
C2_InvocationNeverShows ==
  BothWritten => (bytes = first.bytes /\ index.digest = first.digest)

\* C4: the digest is the hash of the canonical serialization of the Index
\* with its digest blanked; it does not depend on the digest field; computing
\* it leaves the Index as scan_target returned it; a persisted artifact
\* carries a non-empty digest equal to calculate_digest of the persisted Index.
C4_DigestOfBlankedIndex ==
  /\ pc = "digested" =>
       /\ index.digest = Sha256Hex(to_canonical_json([index EXCEPT !.digest = <<>>]))
       /\ calculate_digest([index EXCEPT !.digest = <<"0">>]) = index.digest
       /\ [index EXCEPT !.digest = <<>>] = BuildIndex(ScanResultOf(acc), inv)
  /\ pc = "written" =>
       /\ bytes = to_canonical_json(index)
       /\ index.digest # <<>>
       /\ index.digest = calculate_digest(index)

C4_Witness == pc = "written" /\ Len(index.files) >= 2 /\ index.digest # <<>>

\* C5: in every result of scan_target files is strictly ascending by path
\* and module_files strictly ascending (validate_sort_order holds).
C5_StrictlySorted == Returned => validate_sort_order(index)

\* C6: no File record has a path with a segment in the ignore set, and every
\* file of the tree with no ignored name among its path components has a
\* File record.
C6_IgnoreSetEnforced ==
  Returned =>
    /\ \A i \in 1..Len(index.files) :
          Segments(index.files[i].path) \cap IGNORED_DIRS = {}
    /\ \A f \in tree :
          (\A k \in 1..Len(f.path) : f.path[k] \notin IGNORED_DIRS)
            => \E i \in 1..Len(index.files) : index.files[i].path = CleanPath(f.path)

\* C7: stats.file_count is the length of files and stats.total_size the sum
\* of the File records' sizes, skipped files and files without a hash included.
C7_StatsAreTotals ==
  Returned =>
    /\ index.stats.file_count = Len(index.files)
    /\ index.stats.total_size = SumSeq(Sizes(index.files))

\* An oversized file with no hash and a binary file are both in the result.
C7_Witness ==
  /\ Returned
  /\ \E i, j \in 1..Len(index.files) :
        /\ index.files[i].size > LOC_BIG_FILE_CAP_BYTES
        /\ index.files[i].hash = <<>>
        /\ index.files[j].size > 0
        /\ index.files[j].size <= LOC_BIG_FILE_CAP_BYTES
        /\ index.files[j].loc = 0

\* C8: languages has no key "Unknown" and counts exactly the File records of
\* each classified language; its counts sum to at most the number of File
\* records; the top_dirs counts sum to stats.file_count.
C8_AggregatesCountOnce ==
  Returned =>
    /\ Unknown \notin DOMAIN index.languages
    /\ \A l \in DOMAIN index.languages :
          index.languages[l] = CountLang(index.files, l)
    /\ \A i \in 1..Len(index.files) :
          index.files[i].lang # Unknown => index.files[i].lang \in DOMAIN index.languages
    /\ MapSum(index.languages) <= Len(index.files)
    /\ MapSum(index.top_dirs) = index.stats.file_count

\* A result with a classified and an unclassified file.
C8_Witness ==
  /\ Returned
  /\ \E i, j \in 1..Len(index.files) :
        index.files[i].lang = Unknown /\ index.files[j].lang # Unknown

\* C3: calculate_digest gives the same digest for an Index and for any
\* permutation of its files and of its module_files.
C3_DigestIgnoresOrder == res # <<>> => res[1] = res[2]

\* The keys of every object of a JSON value are strictly ascending.
RECURSIVE KeysAscending(_)
KeysAscending(v) ==
  IF v[1] = "obj"
  THEN /\ \A i \in 1..(Len(v[2]) - 1) : StrLess(v[2][i][1], v[2][i + 1][1])
       /\ \A i \in 1..Len(v[2]) : KeysAscending(v[2][i][2])
  ELSE IF v[1] = "arr"
  THEN \A i \in 1..Len(v[2]) : KeysAscending(v[2][i])
  ELSE TRUE

Field(v, key) == v[2][MapGet(v[2], key)][2]

\* C9: the canonical value has its keys strictly ascending at every depth and
\* its arrays in the order given, and the bytes are those of the same value
\* with its keys inserted in declaration order.
C9_CanonicalKeyOrder ==
  res # <<>> =>
    LET c == canonicalize_value(arg.value)
        fs == Field(c, <<"f","i","l","e","s">>)[2]
        ms == Field(c, <<"m","o","d","u","l","e","F","i","l","e","s">>)[2]
    IN /\ KeysAscending(c)
       /\ Len(fs) = Len(arg.index.files)
       /\ \A i \in 1..Len(fs) :
             /\ Field(fs[i], <<"p","a","t","h">>) = Str(arg.index.files[i].path)
             /\ Field(fs[i], <<"s","i","z","e">>) = Num(arg.index.files[i].size)
       /\ ms = [i \in 1..Len(arg.index.module_files) |-> Str(arg.index.module_files[i])]
       /\ res[1] = to_vec(c)
       /\ res[1] = to_canonical_json(arg.index)

\* Keys inserted in another order, two files and two module files.
C9_Witness ==
  /\ res # <<>>
  /\ arg.shuffle # 0
  /\ Len(arg.index.files) >= 2
  /\ Len(arg.index.module_files) >= 2

\* Content the claim calls valid text, and content it calls invalid.
PlainText(c) == \A i \in 1..Len(c.head) : c.head[i] \in {"a", "nl", "cr"}

HasInvalidByte(c) == \E i \in 1..Len(c.head) : c.head[i] = "xFF"

\* C10: over the cap: skipped, loc 0, true size; exactly the cap: processed,
\* not skipped when valid text; size zero: not skipped, loc 0; invalid UTF-8:
\* skipped, loc 0, size reported; none of these is an error.
C10_LocClassification ==
  res # <<>> =>
    LET r == res[1]
        size == ContentSize(arg.content)
    IN /\ size > LOC_BIG_FILE_CAP_BYTES =>
            r = [ok |-> TRUE, loc |-> 0, size |-> size, skipped |-> TRUE]
       /\ size = 0 =>
            r = [ok |-> TRUE, loc |-> 0, size |-> 0, skipped |-> FALSE]
       /\ (size = LOC_BIG_FILE_CAP_BYTES /\ arg.readable /\ PlainText(arg.content)) =>
            (r.ok /\ ~r.skipped /\ r.size = size /\ r.loc >= 1)
       /\ (size > 0 /\ size <= LOC_BIG_FILE_CAP_BYTES /\ arg.readable
             /\ HasInvalidByte(arg.content)) =>
            r = [ok |-> TRUE, loc |-> 0, size |-> size, skipped |-> TRUE]

\* A file of exactly the cap size was processed.
C10_Witness ==
  /\ res # <<>>
  /\ ContentSize(arg.content) = LOC_BIG_FILE_CAP_BYTES
  /\ res[1].ok
  /\ ~res[1].skipped

(* ------------------------------ line counting -------------------------- *)

\* The last byte of a non-empty content.
LastByte(c) == IF c.pad > 0 THEN "a" ELSE c.head[Len(c.head)]

\* The lines of a text split on '\n': one per terminator (a '\r' before the
\* '\n' is part of the terminator, so it opens no line of its own), and one
\* more for a final line that has no terminator.
SplitLines(c) ==
  Cardinality({i \in 1..Len(c.head) : c.head[i] = "nl"})
    + (IF ContentSize(c) > 0 /\ LastByte(c) # "nl" THEN 1 ELSE 0)

Text(head, pad) == [head |-> head, pad |-> pad]

RootWalked == ~is_ignored(RootFileName(inv.target))

\* A file the scan is to record: no component of its path is ignored.
Tracked(f) == \A k \in 1..Len(f.path) : f.path[k] \notin IGNORED_DIRS

\* C12: a file whose content cannot be opened or read does not abort the
\* scan: scan_target returns a result, and the result has a File record for
\* the file, with an empty hash.
C12_ReadFailureIsSoft ==
  /\ err # "open"
  /\ (Returned /\ RootWalked) =>
       \A f \in tree :
         (Tracked(f) /\ ~f.readable) =>
           \E i \in 1..Len(index.files) :
             /\ index.files[i].path = CleanPath(f.path)
             /\ index.files[i].hash = <<>>

\* C13: a hard failure (directory entry, metadata, serialization, write)
\* makes run_scan return an error, and then the final path holds what it
\* held before the run; nothing is written before traversal, digest and
\* serialization have succeeded.
C13_HardFailureLeavesArtifact ==
  /\ err # "none" => pc = "failed"
  /\ pc = "failed" => (err # "none" /\ Observed(disk) = prev)
  /\ pc \in {"start", "walk", "built", "digested", "serialized"} =>
       (writers[1].pc = "idle" /\ Observed(disk) = prev)
  /\ writers[1].pc # "idle" => writers[1].content = bytes

\* A write over an existing, different artifact failed part way: the
\* temporary file is partial and the artifact is the old one.
C13_Witness ==
  /\ pc = "failed"
  /\ err = "write"
  /\ prev # <<>>
  /\ prev # <<bytes>>
  /\ Observed(disk) = prev
  /\ disk.names[temp_path(FinalName)] # 0
  /\ disk.data[disk.names[temp_path(FinalName)]] # bytes

\* C14: at every step of write_atomic, and when it fails or the process
\* stops, the final path holds its previous state or the complete new
\* content; once write_atomic has returned Ok it holds the new content.
C14_NeverPartial ==
  /\ \/ Observed(disk) = prev
     \/ writers[1].pc # "idle" /\ Observed(disk) = <<writers[1].content>>
  /\ writers[1].pc = "done" => Observed(disk) = <<writers[1].content>>

\* The process stopped with half the content in the temporary file, over an
\* existing artifact.
C14_Witness ==
  /\ writers[1].pc = "stopped"
  /\ prev # <<>>
  /\ Observed(disk) = prev
  /\ disk.names[temp_path(FinalName)] # 0
  /\ Len(disk.data[disk.names[temp_path(FinalName)]]) > 0
  /\ Len(disk.data[disk.names[temp_path(FinalName)]]) < Len(writers[1].content)

(* ------------------------------ module files --------------------------- *)

GitName == <<".", "g", "i", "t">>

\* C16: module_files is exactly the root-level tracked files with a
\* recognized name, plus ".git" exactly when the scan root has a .git entry;
\* a recognized name in a subdirectory is no module file; every module file
\* but ".git" is the path of a File record.
C16_ModuleFilesExact ==
  Returned =>
    LET mods == {index.module_files[i] : i \in 1..Len(index.module_files)}
        paths == {index.files[i].path : i \in 1..Len(index.files)}
    IN /\ Cardinality(mods) = Len(index.module_files)
       /\ mods =
            {CleanPath(f.path) :
               f \in {g \in tree : /\ Len(g.path) = 1
                                   /\ Tracked(g)
                                   /\ g.path[1] \in MODULE_FILES_LOOKUP}}
            \cup (IF <<GitName>> \in FilePaths(tree) \cup Dirs(tree)
                  THEN {GitName} ELSE {})
       /\ mods \ {GitName} \subseteq paths

\* The same, for the runs whose walk reaches the entries below the root.
C16_WhenRootWalked == RootWalked => C16_ModuleFilesExact

(* ------------------------------ symbolic links ------------------------- *)

\* C15: no symbolic link is followed: every File record describes a regular
\* file of the tree, with that file's path, size and hash, and no record
\* lies below a link.
C15_LinksNotFollowed ==
  Returned =>
    \A i \in 1..Len(index.files) :
      \E f \in tree :
        /\ f.link = "none"
        /\ index.files[i].path = CleanPath(f.path)
        /\ index.files[i].size = ContentSize(f.content)
        /\ index.files[i].hash = FileHashOrEmpty(f)

(* ---------------------------- concurrent writers ----------------------- *)

\* C17: with two processes in write_atomic for the same final path, under
\* every interleaving the final path holds what it held before or the
\* complete bytes of one of the two: never empty, truncated or mixed.
C17_ConcurrentWritesWhole ==
  Observed(disk) \in {prev} \cup {<<writers[p].content>> : p \in DOMAIN writers}

=============================================================================
